---- MODULE Spec2Model ----
(***************************************************************************)
(* Authentication / session-refresh workflow of the CRUD-Generator         *)
(* backend: AuthService (register, login, generateTokens, refreshToken),   *)
(* TokenService (sign / verify of access and refresh tokens) and the two   *)
(* tables the service works on (users, refresh tokens); AuthenticationGuard *)
(* with the strategies it composes per route.                              *)
(*                                                                         *)
(* Every request is a logical task of its own (Procs); a task is suspended *)
(* at each store operation, so one action is one store operation together  *)
(* with the local computation that precedes it.  The clock `now` counts    *)
(* seconds, the resolution of the iat / exp claims of a signed token.      *)
(***************************************************************************)
EXTENDS Integers, Sequences, FiniteSets, TLC

\* ---------------------------------------------------------------- bounds
MaxTime == 2
MaxCalls == 4
MaxAuthTypes == 2
MaxPosts == 2

\* ---------------------------------------------------------------- inputs
Procs == {"c1", "c2"}
Emails == {"a@x.com", "b@x.com"}
Passwords == {"pw1", "pw2"}
Names == {"n"}
Salts == {"s1"}

\* ---------------------------------------------------------------- configuration
ACCESS_TOKEN_SECRET == "access-secret"
REFRESH_TOKEN_SECRET == "refresh-secret"
ACCESS_TOKEN_EXPIRES_IN == 1
REFRESH_TOKEN_EXPIRES_IN == 2

VARIABLES
  users,          \* user table: set of rows
  refreshTokens,  \* refresh-token table: set of rows
  now,            \* clock, in seconds
  pc,             \* per task: position in its handler
  arg,            \* per task: the handler and its arguments
  loc,            \* per task: local variables of the handler
  trace,          \* per task: the primitives the handler has called, in order
  result,         \* per task: what the handler returned or threw
  obs,            \* per task: facts about the store and the clock at the handler's steps
  redeemed,       \* history: refresh-token strings deleted by refreshToken
  issuedCount,    \* history: per user id, token pairs signed so far (capped at 2)
  calls,          \* history: number of handler invocations started
  guard,          \* AuthenticationGuard: the request it decides on, and its progress
  posts,          \* post table: set of rows
  postSeq,        \* post table: the last id the table has assigned
  postResult      \* PostsService: the last call, and what it returned or threw

vars == <<users, refreshTokens, now, pc, arg, loc, trace, result, obs, redeemed, issuedCount, calls,
          guard, posts, postSeq, postResult>>

\* ---------------------------------------------------------------- values
NoToken == [userId |-> 0, iat |-> 0, exp |-> 0, sig |-> "none"]
NoTokens == [accessToken |-> NoToken, refreshToken |-> NoToken]
NoHash == [plain |-> "", salt |-> ""]
NullUser == [id |-> 0, email |-> "", password |-> NoHash, name |-> ""]
NoError == [name |-> "", code |-> "", message |-> "", field |-> ""]
NoArg == [op |-> "", email |-> "", password |-> "", name |-> "", token |-> NoToken]
NoLoc == [userId |-> 0, accessToken |-> NoToken, refreshToken |-> NoToken, exp |-> 0]
NoResult == [status |-> "none", error |-> NoError, tokens |-> NoTokens, user |-> NullUser]
\* emailTaken: register found the email in the user table; userFound: login found a
\* row; expired / redeemedBefore: the presented token at refreshToken's verify step;
\* storedAtStart, storedAtFind, storedAtDelete: the presented string was in the
\* store at that step; overlaps: the tasks whose current refreshToken call of the
\* same string was in flight when this call started; fault: the error a failing
\* store raised inside the handler
NoObs == [emailTaken |-> FALSE, userFound |-> FALSE, expired |-> FALSE,
          redeemedBefore |-> FALSE, storedAtStart |-> FALSE, storedAtFind |-> FALSE,
          storedAtDelete |-> FALSE, overlaps |-> {}, fault |-> NoError]

\* a string that is no signed token at all
Garbage == [userId |-> 0, iat |-> 0, exp |-> 0, sig |-> "garbage"]

\* ---------------------------------------------------------------- exceptions
UnauthorizedException(message) ==
  [name |-> "UnauthorizedException", code |-> "", message |-> message, field |-> ""]

ConflictException(message) ==
  [name |-> "ConflictException", code |-> "", message |-> message, field |-> ""]

UnprocessableEntityException(field, message) ==
  [name |-> "UnprocessableEntityException", code |-> "", message |-> message, field |-> field]

PrismaClientKnownRequestError(code) ==
  [name |-> "PrismaClientKnownRequestError", code |-> code, message |-> "", field |-> ""]

\* an error of the database that is no known-request error of prisma
DatabaseError(message) ==
  [name |-> "Error", code |-> "", message |-> message, field |-> ""]

\* what a failing store raises, other than not-found
StoreFaults == {DatabaseError("Database delete failed"), PrismaClientKnownRequestError("P2001")}

JwtError(name) ==
  [name |-> name, code |-> "", message |-> "", field |-> ""]

isUnqueConstraintPrismaError(error) ==
  error.name = "PrismaClientKnownRequestError" /\ error.code = "P2002"

isNotFoundPrismaError(error) ==
  error.name = "PrismaClientKnownRequestError" /\ error.code = "P2025"

Returned(tokens, user) ==
  [status |-> "returned", error |-> NoError, tokens |-> tokens, user |-> user]

Thrown(error) ==
  [status |-> "thrown", error |-> error, tokens |-> NoTokens, user |-> NullUser]

\* ---------------------------------------------------------------- HashingService
hash(plain, salt) == [plain |-> plain, salt |-> salt]

compare(plain, hashed) == hashed.plain = plain

\* ---------------------------------------------------------------- TokenService
\* jwtService.sign: HS256 over the payload {userId, iat, exp}; iat is the clock in
\* seconds, so the string is a function of (userId, second, lifetime, secret).
JwtSign(payload, secret, expiresIn, t) ==
  [userId |-> payload.userId, iat |-> t, exp |-> t + expiresIn, sig |-> secret]

\* a verification that still accepts the token in the second of its exp claim
JwtVerifyUpToExp(token, secret, t) ==
  IF token.sig # secret
    THEN [ok |-> FALSE, error |-> JwtError("JsonWebTokenError"), userId |-> 0, exp |-> 0]
    ELSE IF t > token.exp
      THEN [ok |-> FALSE, error |-> JwtError("TokenExpiredError"), userId |-> 0, exp |-> 0]
      ELSE [ok |-> TRUE, error |-> NoError, userId |-> token.userId, exp |-> token.exp]

\* jwtService.verifyAsync: signature first, then expiry (expired when exp <= clock).
JwtVerify(token, secret, t) ==
  IF token.sig # secret
    THEN [ok |-> FALSE, error |-> JwtError("JsonWebTokenError"), userId |-> 0, exp |-> 0]
    ELSE IF t >= token.exp
      THEN [ok |-> FALSE, error |-> JwtError("TokenExpiredError"), userId |-> 0, exp |-> 0]
      ELSE [ok |-> TRUE, error |-> NoError, userId |-> token.userId, exp |-> token.exp]

\* signAccessToken signing with the refresh secret
signAccessTokenWithRefreshSecret(payload, t) ==
  JwtSign(payload, REFRESH_TOKEN_SECRET, ACCESS_TOKEN_EXPIRES_IN, t)

signAccessToken(payload, t) ==
  JwtSign(payload, ACCESS_TOKEN_SECRET, ACCESS_TOKEN_EXPIRES_IN, t)

signRefreshToken(payload, t) ==
  JwtSign(payload, REFRESH_TOKEN_SECRET, REFRESH_TOKEN_EXPIRES_IN, t)

\* verifyAccessToken checking the signature only
verifyAccessTokenIgnoreExpiration(token, t) ==
  IF token.sig # ACCESS_TOKEN_SECRET
    THEN [ok |-> FALSE, error |-> JwtError("JsonWebTokenError"), userId |-> 0, exp |-> 0]
    ELSE [ok |-> TRUE, error |-> NoError, userId |-> token.userId, exp |-> token.exp]

verifyAccessToken(token, t) == JwtVerify(token, ACCESS_TOKEN_SECRET, t)

\* verifyRefreshToken checking the signature only
verifyRefreshTokenIgnoreExpiration(token, t) ==
  IF token.sig # REFRESH_TOKEN_SECRET
    THEN [ok |-> FALSE, error |-> JwtError("JsonWebTokenError"), userId |-> 0, exp |-> 0]
    ELSE [ok |-> TRUE, error |-> NoError, userId |-> token.userId, exp |-> token.exp]

\* verifyRefreshToken accepting the signature of either secret
verifyRefreshTokenEitherSecret(token, t) ==
  IF token.sig = ACCESS_TOKEN_SECRET
    THEN JwtVerify(token, ACCESS_TOKEN_SECRET, t)
    ELSE JwtVerify(token, REFRESH_TOKEN_SECRET, t)

verifyRefreshToken(token, t) == JwtVerify(token, REFRESH_TOKEN_SECRET, t)

\* ---------------------------------------------------------------- store primitives
\* prisma.user.create: email is unique; the id is assigned by the table.
UserCreate(table, data) ==
  IF \E u \in table : u.email = data.email
    THEN [ok |-> FALSE, error |-> PrismaClientKnownRequestError("P2002"),
          table |-> table, row |-> NullUser]
    ELSE LET row == [id |-> Cardinality(table) + 1, email |-> data.email,
                     password |-> data.password, name |-> data.name]
         IN [ok |-> TRUE, error |-> NoError, table |-> table \cup {row}, row |-> row]

\* prisma.user.findUnique({where: {email}}): the row, or null.
UserFindUnique(table, email) ==
  IF \E u \in table : u.email = email
    THEN CHOOSE u \in table : u.email = email
    ELSE NullUser

\* prisma.refreshToken.create: token is unique.
RefreshTokenCreate(table, data) ==
  IF \E r \in table : r.token = data.token
    THEN [ok |-> FALSE, error |-> PrismaClientKnownRequestError("P2002"), table |-> table]
    ELSE [ok |-> TRUE, error |-> NoError, table |-> table \cup {data}]

\* a lookup that never throws
RefreshTokenFindAlways(table, token) == [ok |-> TRUE, error |-> NoError]

\* prisma.refreshToken.findUniqueOrThrow({where: {token}}).
RefreshTokenFindUniqueOrThrow(table, token) ==
  IF \E r \in table : r.token = token
    THEN [ok |-> TRUE, error |-> NoError]
    ELSE [ok |-> FALSE, error |-> PrismaClientKnownRequestError("P2025")]

\* a delete that removes every row of the token's user
RefreshTokenDeleteAllOfUser(table, token) ==
  IF \E r \in table : r.token = token
    THEN [ok |-> TRUE, error |-> NoError, table |-> {r \in table : r.userId # token.userId}]
    ELSE [ok |-> FALSE, error |-> PrismaClientKnownRequestError("P2025"), table |-> table]

\* prisma.refreshToken.delete reporting success without removing the row
RefreshTokenDeleteKeepsRow(table, token) ==
  IF \E r \in table : r.token = token
    THEN [ok |-> TRUE, error |-> NoError, table |-> table]
    ELSE [ok |-> FALSE, error |-> PrismaClientKnownRequestError("P2025"), table |-> table]

\* prisma.refreshToken.delete({where: {token}}): throws when there is no such row.
RefreshTokenDelete(table, token) ==
  IF \E r \in table : r.token = token
    THEN [ok |-> TRUE, error |-> NoError, table |-> {r \in table : r.token # token}]
    ELSE [ok |-> FALSE, error |-> PrismaClientKnownRequestError("P2025"), table |-> table]

\* ---------------------------------------------------------------- AuthService
\* register's catch block answering every error with the conflict
RegisterCatchAlwaysConflict(error) == ConflictException("Email already exists")

\* register's catch block rethrowing every error as it is
RegisterCatchRethrow(error) == error

\* catch block of register
RegisterCatch(error) ==
  IF isUnqueConstraintPrismaError(error)
    THEN ConflictException("Email already exists")
    ELSE error

\* login without the password check
LoginCheckNoCompare(user, password) ==
  IF user = NullUser
    THEN [calls |-> <<>>, error |-> UnauthorizedException("Account does not exist")]
    ELSE [calls |-> <<>>, error |-> NoError]

\* login comparing the password before it looks at the lookup's result
LoginCheckCompareFirst(user, password) ==
  IF ~compare(password, user.password)
    THEN [calls |-> <<"compare">>,
          error |-> UnprocessableEntityException("password", "Incorrect password")]
    ELSE IF user = NullUser
      THEN [calls |-> <<"compare">>, error |-> UnauthorizedException("Account does not exist")]
      ELSE [calls |-> <<"compare">>, error |-> NoError]

\* login answering every failure with one generic error
LoginCheckGeneric(user, password) ==
  IF user = NullUser \/ ~compare(password, user.password)
    THEN [calls |-> IF user = NullUser THEN <<>> ELSE <<"compare">>,
          error |-> UnauthorizedException("Account or password incorrect")]
    ELSE [calls |-> <<"compare">>, error |-> NoError]

\* login between the user lookup and the call of generateTokens: the primitives
\* called after findUnique, and the exception thrown (NoError: none)
LoginCheck(user, password) ==
  IF user = NullUser
    THEN [calls |-> <<>>, error |-> UnauthorizedException("Account does not exist")]
    ELSE IF ~compare(password, user.password)
      THEN [calls |-> <<"compare">>,
            error |-> UnprocessableEntityException("password", "Incorrect password")]
      ELSE [calls |-> <<"compare">>, error |-> NoError]

\* refreshToken's catch block rethrowing what is not a not-found error
RefreshCatchRethrow(error) ==
  IF isNotFoundPrismaError(error)
    THEN UnauthorizedException("Refresh token has been revoked")
    ELSE error

\* refreshToken's catch block without the not-found case
RefreshCatchGeneric(error) == UnauthorizedException("Unauthorized")

\* catch block of refreshToken
RefreshCatch(error) ==
  IF isNotFoundPrismaError(error)
    THEN UnauthorizedException("Refresh token has been revoked")
    ELSE UnauthorizedException("Unauthorized")

\* an error thrown inside generateTokens reaching every caller unchanged
GenerateTokensThrowUnchanged(op, error) == error

\* an error thrown inside generateTokens reaches login's caller unchanged and
\* refreshToken's caller through refreshToken's catch block
GenerateTokensThrow(op, error) ==
  IF op = "refreshToken" THEN RefreshCatch(error) ELSE error

\* the record of generateTokens stored for the first user whoever the payload names
RefreshTokenDataFirstUser(refreshToken, payload, decodeRefreshToken) ==
  [token |-> refreshToken, userId |-> 1, expiresAt |-> decodeRefreshToken.exp * 1000]

\* the record of generateTokens with the expiry left in seconds
RefreshTokenDataInSeconds(refreshToken, payload, decodeRefreshToken) ==
  [token |-> refreshToken, userId |-> payload.userId, expiresAt |-> decodeRefreshToken.exp]

\* the record generateTokens stores for a signed refresh token
RefreshTokenData(refreshToken, payload, decodeRefreshToken) ==
  [token |-> refreshToken, userId |-> payload.userId, expiresAt |-> decodeRefreshToken.exp * 1000]

Idle(p) == pc[p] \in {"idle", "done"}

InFlight(p) == ~Idle(p)

\* a task starts a handler: its observations are reset, and it no longer counts
\* as the overlapping call of the others
Begin(p, o) ==
  /\ Idle(p)
  /\ calls < MaxCalls
  /\ calls' = calls + 1
  /\ obs' = [q \in Procs |-> IF q = p THEN o ELSE [obs[q] EXCEPT !.overlaps = @ \ {p}]]

Finish(p, r) ==
  /\ pc' = [pc EXCEPT ![p] = "done"]
  /\ loc' = [loc EXCEPT ![p] = NoLoc]
  /\ result' = [result EXCEPT ![p] = r]

\* ---------------------------------------------------------------- AuthenticationGuard
\* a value that may be undefined: a request header, a variable of the environment
Str(s) == [defined |-> TRUE, value |-> s]
Undefined == [defined |-> FALSE, value |-> ""]

AuthType == [Bearer |-> "Bearer", APIKey |-> "APIKey", None |-> "None"]
ConditionGuard == [And |-> "And", Or |-> "Or"]
AuthTypes == {AuthType.Bearer, AuthType.APIKey, AuthType.None}

\* Auth(authTypes) called without its second argument
NoOptions == [condition |-> ""]

\* no metadata under AUTH_TYPE_KEY
NoMetadata == [defined |-> FALSE, authTypes |-> <<>>, options |-> NoOptions]

\* the Auth decorator: the metadata it attaches to a route
Auth(authTypes, options) ==
  [defined |-> TRUE, authTypes |-> authTypes,
   options |-> IF options = NoOptions THEN [condition |-> ConditionGuard.And] ELSE options]

\* a route written without Auth, or with Auth(authTypes, options)
NoDeclaration == [declared |-> FALSE, authTypes |-> <<>>, options |-> NoOptions]
Declaration(authTypes, options) == [declared |-> TRUE, authTypes |-> authTypes, options |-> options]

MetadataOf(declaration) ==
  IF declaration.declared THEN Auth(declaration.authTypes, declaration.options) ELSE NoMetadata

\* the metadata canActivate works with, Bearer being required where nothing is declared
AuthTypeValueDefaultBearer(metadata) ==
  IF metadata.defined THEN metadata ELSE Auth(<<AuthType.Bearer>>, [condition |-> ConditionGuard.And])

\* reflector.getAllAndOverride(...) ?? { authTypes: [None], options: { condition: And } }
AuthTypeValue(metadata) ==
  IF metadata.defined THEN metadata ELSE Auth(<<AuthType.None>>, [condition |-> ConditionGuard.And])

\* what a strategy's canActivate does: it returns a value (or a promise resolved
\* with it), returns a promise that is rejected, or throws before it returns
Returns(value, userId) == [kind |-> "return", value |-> value, error |-> NoError, userId |-> userId]
Rejects(error) == [kind |-> "reject", value |-> FALSE, error |-> error, userId |-> 0]
Throws(error) == [kind |-> "throw", value |-> FALSE, error |-> error, userId |-> 0]

\* authTypeGuardMap[AuthType.None]
NoneCanActivate == Returns(TRUE, 0)

\* APIKeyGuard.canActivate, a synchronous function
APIKeyGuardCanActivate(request, SECRET_API_KEY) ==
  IF request.xApiKey # SECRET_API_KEY
    THEN Throws(UnauthorizedException("Unauthorized"))
    ELSE Returns(TRUE, 0)

\* AccessTokenGuard.canActivate: the token of the authorization header is verified
\* as an access token
AccessTokenGuardCanActivate(request, t) ==
  IF request.authorization = NoToken
    THEN Rejects(UnauthorizedException("Unauthorized"))
    ELSE LET decoded == verifyAccessToken(request.authorization, t)
         IN IF decoded.ok
              THEN Returns(TRUE, decoded.userId)
              ELSE Rejects(UnauthorizedException("Unauthorized"))

CanActivateOf(authType, request, SECRET_API_KEY, t) ==
  CASE authType = AuthType.Bearer -> AccessTokenGuardCanActivate(request, t)
    [] authType = AuthType.APIKey -> APIKeyGuardCanActivate(request, SECRET_API_KEY)
    [] authType = AuthType.None -> NoneCanActivate

\* await Promise.resolve(instance.canActivate(context)).catch(err => {error = err;
\* return false}): a rejection is caught and kept in error; what canActivate
\* throws before it returns is thrown on, past Promise.resolve and its catch
Awaited(outcome, error) ==
  CASE outcome.kind = "throw" ->
         [escaped |-> TRUE, canActivate |-> FALSE, error |-> outcome.error, own |-> TRUE]
    [] outcome.kind = "reject" ->
         [escaped |-> FALSE, canActivate |-> FALSE, error |-> outcome.error, own |-> TRUE]
    [] outcome.kind = "return" ->
         [escaped |-> FALSE, canActivate |-> outcome.value, error |-> error, own |-> FALSE]

NoRequest == [authorization |-> NoToken, xApiKey |-> Undefined]

\* the guard between two requests; SECRET_API_KEY is envConfig.SECRET_API_KEY
IdleGuard(SECRET_API_KEY) ==
  [status |-> "idle", SECRET_API_KEY |-> SECRET_API_KEY, declaration |-> NoDeclaration,
   authTypes |-> <<>>, condition |-> "", request |-> NoRequest, validAtStart |-> FALSE,
   idx |-> 1, error |-> NoError, errorFrom |-> 0, evaluated |-> <<>>,
   thrown |-> NoError, thrownFrom |-> 0, userId |-> 0]

\* canActivate returns true
Grant(g) == [g EXCEPT !.status = "granted"]

\* canActivate throws error, raised by the strategy at position from (0: by none)
Deny(g, error, from) == [g EXCEPT !.status = "denied", !.thrown = error, !.thrownFrom = from]

\* what follows the for loop once every guard has been gone through
AfterLoop(g) ==
  IF g.status # "running" \/ g.idx <= Len(g.authTypes)
    THEN g
    ELSE IF g.condition = ConditionGuard.Or
      THEN Deny(g, g.error, g.errorFrom)
      ELSE Grant(g)

\* the strategy at position g.idx called together with the one after it
EvaluatedWithNext(g, outcome) ==
  LET entry(i) == [authType |-> g.authTypes[i],
                   ok |-> outcome.kind = "return" /\ outcome.value,
                   kind |-> outcome.kind]
  IN [g EXCEPT !.evaluated = IF g.idx < Len(g.authTypes)
                               THEN @ \o <<entry(g.idx), entry(g.idx + 1)>>
                               ELSE Append(@, entry(g.idx)),
               !.userId = IF outcome.kind = "return" /\ outcome.userId # 0 THEN outcome.userId ELSE @]

\* the strategy at position g.idx has been called and awaited
Evaluated(g, outcome) ==
  [g EXCEPT !.evaluated = Append(@, [authType |-> g.authTypes[g.idx],
                                     ok |-> outcome.kind = "return" /\ outcome.value,
                                     kind |-> outcome.kind]),
            !.userId = IF outcome.kind = "return" /\ outcome.userId # 0 THEN outcome.userId ELSE @]

\* one iteration of the And loop granting at the first strategy that succeeds
AndIterationGrantsEarly(g, outcome) ==
  LET a == Awaited(outcome, g.error)
      h == [Evaluated(g, outcome) EXCEPT !.error = a.error,
                                         !.errorFrom = IF a.own THEN g.idx ELSE @]
  IN IF a.escaped THEN Deny(h, a.error, g.idx)
     ELSE IF a.canActivate THEN Grant(h)
     ELSE [h EXCEPT !.idx = @ + 1]

\* one iteration of the loop of the And branch
AndIteration(g, outcome) ==
  LET a == Awaited(outcome, g.error)
      h == [Evaluated(g, outcome) EXCEPT !.error = a.error,
                                         !.errorFrom = IF a.own THEN g.idx ELSE @]
  IN IF a.escaped THEN Deny(h, a.error, g.idx)
     ELSE IF ~a.canActivate THEN Deny(h, h.error, h.errorFrom)
     ELSE [h EXCEPT !.idx = @ + 1]

\* one iteration of the loop of the Or branch
OrIteration(g, outcome) ==
  LET a == Awaited(outcome, g.error)
      h == [Evaluated(g, outcome) EXCEPT !.error = a.error,
                                         !.errorFrom = IF a.own THEN g.idx ELSE @]
  IN IF a.escaped THEN Deny(h, a.error, g.idx)
     ELSE IF a.canActivate THEN Grant(h)
     ELSE [h EXCEPT !.idx = @ + 1]

\* ---------------------------------------------------------------- PostsService
NotFoundException(message) ==
  [name |-> "NotFoundException", code |-> "", message |-> message, field |-> ""]

NoPost == [id |-> 0, title |-> "", content |-> "", authorId |-> 0]

\* a call of PostsService: its arguments, and the post, the list or the error it
\* ended with
NoPostResult ==
  [op |-> "", userId |-> 0, postId |-> 0, status |-> "none", error |-> NoError,
   post |-> NoPost, list |-> {}]

\* prisma.post.create: the table assigns the next id
PostCreate(table, seq, data) ==
  LET row == [id |-> seq + 1, title |-> data.title, content |-> data.content,
              authorId |-> data.authorId]
  IN [ok |-> TRUE, error |-> NoError, table |-> table \cup {row}, row |-> row]

\* prisma.post.findMany({where: {authorId}})
PostFindMany(table, where) == {r \in table : r.authorId = where.authorId}

\* prisma.post.findUniqueOrThrow({where: {id}})
PostFindUniqueOrThrow(table, where) ==
  IF \E r \in table : r.id = where.id
    THEN [ok |-> TRUE, error |-> NoError, row |-> CHOOSE r \in table : r.id = where.id]
    ELSE [ok |-> FALSE, error |-> PrismaClientKnownRequestError("P2025"), row |-> NoPost]

\* an update that selects the row by its id alone
PostUpdateById(table, where, data) ==
  IF \E r \in table : r.id = where.id
    THEN LET old == CHOOSE r \in table : r.id = where.id
             row == [old EXCEPT !.title = data.title, !.content = data.content]
         IN [ok |-> TRUE, error |-> NoError, table |-> (table \ {old}) \cup {row}, row |-> row]
    ELSE [ok |-> FALSE, error |-> PrismaClientKnownRequestError("P2025"),
          table |-> table, row |-> NoPost]

\* prisma.post.update({where: {id, authorId}, data}): throws when no row matches
PostUpdate(table, where, data) ==
  IF \E r \in table : r.id = where.id /\ r.authorId = where.authorId
    THEN LET old == CHOOSE r \in table : r.id = where.id /\ r.authorId = where.authorId
             row == [old EXCEPT !.title = data.title, !.content = data.content]
         IN [ok |-> TRUE, error |-> NoError, table |-> (table \ {old}) \cup {row}, row |-> row]
    ELSE [ok |-> FALSE, error |-> PrismaClientKnownRequestError("P2025"),
          table |-> table, row |-> NoPost]

\* prisma.post.delete({where: {id, authorId}}): throws when no row matches
PostDelete(table, where) ==
  IF \E r \in table : r.id = where.id /\ r.authorId = where.authorId
    THEN [ok |-> TRUE, error |-> NoError,
          table |-> {r \in table : ~(r.id = where.id /\ r.authorId = where.authorId)}]
    ELSE [ok |-> FALSE, error |-> PrismaClientKnownRequestError("P2025"), table |-> table]

\* catch block of findOne, update and remove
PostsCatch(error) ==
  IF isNotFoundPrismaError(error) THEN NotFoundException("Post not found") ELSE error

Init ==
  /\ users = {}
  /\ refreshTokens = {}
  /\ now = 0
  /\ pc = [p \in Procs |-> "idle"]
  /\ arg = [p \in Procs |-> NoArg]
  /\ loc = [p \in Procs |-> NoLoc]
  /\ trace = [p \in Procs |-> <<>>]
  /\ result = [p \in Procs |-> NoResult]
  /\ obs = [p \in Procs |-> NoObs]
  /\ redeemed = {}
  /\ issuedCount = [u \in {} |-> 0]
  /\ calls = 0
  /\ guard = IdleGuard(Str("secret-api-key"))
  /\ posts = {}
  /\ postSeq = 0
  /\ postResult = NoPostResult

\* the clock advances by one second
Tick ==
  /\ now < MaxTime
  /\ now' = now + 1
  /\ UNCHANGED <<users, refreshTokens, pc, arg, loc, trace, result, obs, redeemed, issuedCount, calls, guard, posts, postSeq, postResult>>

\* AuthService.register
Register(p, email, password, name) ==
  /\ Begin(p, [NoObs EXCEPT !.emailTaken = \E u \in users : u.email = email])
  /\ arg' = [arg EXCEPT ![p] = [NoArg EXCEPT !.op = "register", !.email = email,
                                             !.password = password, !.name = name]]
  /\ trace' = [trace EXCEPT ![p] = <<"hash", "user.create">>]
  /\ \E salt \in Salts :
       LET hashedPassword == hash(password, salt)
           r == UserCreate(users, [email |-> email, password |-> hashedPassword, name |-> name])
       IN /\ users' = r.table
          /\ issuedCount' = IF r.ok THEN [u \in DOMAIN issuedCount \cup {r.row.id} |->
                                            IF u = r.row.id THEN 0 ELSE issuedCount[u]]
                                    ELSE issuedCount
          /\ Finish(p, IF r.ok THEN Returned(NoTokens, r.row) ELSE Thrown(RegisterCatch(r.error)))
  /\ UNCHANGED <<refreshTokens, now, redeemed, guard, posts, postSeq, postResult>>

\* AuthService.login up to the call of generateTokens
Login(p, email, password) ==
  LET user == UserFindUnique(users, email)
      check == LoginCheck(user, password)
  IN /\ Begin(p, [NoObs EXCEPT !.userFound = user # NullUser])
     /\ arg' = [arg EXCEPT ![p] = [NoArg EXCEPT !.op = "login", !.email = email,
                                                !.password = password]]
     /\ trace' = [trace EXCEPT ![p] = <<"user.findUnique">> \o check.calls]
     /\ IF check.error # NoError
          THEN Finish(p, Thrown(check.error))
          ELSE /\ pc' = [pc EXCEPT ![p] = "gen_sign"]
               /\ loc' = [loc EXCEPT ![p] = [NoLoc EXCEPT !.userId = user.id]]
               /\ result' = [result EXCEPT ![p] = NoResult]
     /\ UNCHANGED <<users, refreshTokens, now, redeemed, issuedCount, guard, posts, postSeq, postResult>>

\* AuthService.generateTokens: sign both tokens, decode the refresh token
GenSign(p) ==
  /\ pc[p] = "gen_sign"
  /\ LET payload == [userId |-> loc[p].userId]
         accessToken == signAccessToken(payload, now)
         refreshToken == signRefreshToken(payload, now)
         decodeRefreshToken == verifyRefreshToken(refreshToken, now)
     IN /\ trace' = [trace EXCEPT ![p] = @ \o <<"signAccessToken", "signRefreshToken", "verifyRefreshToken">>]
        /\ issuedCount' = [issuedCount EXCEPT ![payload.userId] = IF @ < 2 THEN @ + 1 ELSE @]
        /\ IF decodeRefreshToken.ok
             THEN /\ pc' = [pc EXCEPT ![p] = "gen_create"]
                  /\ loc' = [loc EXCEPT ![p] = [userId |-> payload.userId, accessToken |-> accessToken,
                                                refreshToken |-> refreshToken, exp |-> decodeRefreshToken.exp]]
                  /\ UNCHANGED result
             ELSE Finish(p, Thrown(GenerateTokensThrow(arg[p].op, decodeRefreshToken.error)))
  /\ UNCHANGED <<users, refreshTokens, now, arg, obs, redeemed, calls, guard, posts, postSeq, postResult>>

\* AuthService.generateTokens: store the refresh token, return the pair
GenCreate(p) ==
  /\ pc[p] = "gen_create"
  /\ LET r == RefreshTokenCreate(refreshTokens,
                 RefreshTokenData(loc[p].refreshToken, [userId |-> loc[p].userId], [exp |-> loc[p].exp]))
     IN /\ refreshTokens' = r.table
        /\ trace' = [trace EXCEPT ![p] = Append(@, "refreshToken.create")]
        /\ Finish(p, IF r.ok
                       THEN Returned([accessToken |-> loc[p].accessToken,
                                      refreshToken |-> loc[p].refreshToken], NullUser)
                       ELSE Thrown(GenerateTokensThrow(arg[p].op, r.error)))
  /\ UNCHANGED <<users, now, arg, obs, redeemed, issuedCount, calls, guard, posts, postSeq, postResult>>

\* the strings a client can present: refresh tokens handed out so far, the access
\* tokens handed out with them, and a string that is no token
AccessTokenOf(token) ==
  [token EXCEPT !.sig = ACCESS_TOKEN_SECRET, !.exp = token.iat + ACCESS_TOKEN_EXPIRES_IN]

Stored == {r.token : r \in refreshTokens}

HandedOut == Stored \cup redeemed

Presentable == HandedOut \cup {AccessTokenOf(t) : t \in HandedOut} \cup {Garbage}

\* AuthService.refreshToken: verify the presented token
RefreshToken(p, refreshToken) ==
  /\ Begin(p, [NoObs EXCEPT !.expired = now >= refreshToken.exp,
                            !.redeemedBefore = refreshToken \in redeemed,
                            !.storedAtStart = refreshToken \in Stored,
                            !.overlaps = {q \in Procs \ {p} : /\ InFlight(q)
                                                              /\ arg[q].op = "refreshToken"
                                                              /\ arg[q].token = refreshToken}])
  /\ arg' = [arg EXCEPT ![p] = [NoArg EXCEPT !.op = "refreshToken", !.token = refreshToken]]
  /\ trace' = [trace EXCEPT ![p] = <<"verifyRefreshToken">>]
  /\ LET decoded == verifyRefreshToken(refreshToken, now)
     IN IF decoded.ok
          THEN /\ pc' = [pc EXCEPT ![p] = "rt_find"]
               /\ loc' = [loc EXCEPT ![p] = [NoLoc EXCEPT !.userId = decoded.userId]]
               /\ result' = [result EXCEPT ![p] = NoResult]
          ELSE Finish(p, Thrown(RefreshCatch(decoded.error)))
  /\ UNCHANGED <<users, refreshTokens, now, redeemed, issuedCount, guard, posts, postSeq, postResult>>

\* AuthService.refreshToken: look the presented token up
RtFind(p) ==
  /\ pc[p] = "rt_find"
  /\ trace' = [trace EXCEPT ![p] = Append(@, "refreshToken.findUniqueOrThrow")]
  /\ obs' = [obs EXCEPT ![p].storedAtFind = arg[p].token \in Stored]
  /\ LET r == RefreshTokenFindUniqueOrThrow(refreshTokens, arg[p].token)
     IN IF r.ok
          THEN /\ pc' = [pc EXCEPT ![p] = "rt_delete"]
               /\ UNCHANGED <<loc, result>>
          ELSE Finish(p, Thrown(RefreshCatch(r.error)))
  /\ UNCHANGED <<users, refreshTokens, now, arg, redeemed, issuedCount, calls, guard, posts, postSeq, postResult>>

\* AuthService.refreshToken: delete the presented token, then call generateTokens
RtDelete(p) ==
  /\ pc[p] = "rt_delete"
  /\ trace' = [trace EXCEPT ![p] = Append(@, "refreshToken.delete")]
  /\ obs' = [obs EXCEPT ![p].storedAtDelete = arg[p].token \in Stored]
  /\ LET r == RefreshTokenDelete(refreshTokens, arg[p].token)
     IN /\ refreshTokens' = r.table
        /\ IF r.ok
             THEN /\ pc' = [pc EXCEPT ![p] = "gen_sign"]
                  /\ redeemed' = redeemed \cup {arg[p].token}
                  /\ UNCHANGED <<loc, result>>
             ELSE /\ Finish(p, Thrown(RefreshCatch(r.error)))
                  /\ UNCHANGED redeemed
  /\ UNCHANGED <<users, now, arg, issuedCount, calls, guard, posts, postSeq, postResult>>

Next ==
  \/ Tick
  \/ \E p \in Procs, email \in Emails, password \in Passwords, name \in Names :
       Register(p, email, password, name)
  \/ \E p \in Procs, email \in Emails, password \in Passwords : Login(p, email, password)
  \/ \E p \in Procs, token \in Presentable : RefreshToken(p, token)
  \/ \E p \in Procs : RtFind(p)
  \/ \E p \in Procs : RtDelete(p)
  \/ \E p \in Procs : GenSign(p)
  \/ \E p \in Procs : GenCreate(p)

Spec == Init /\ [][Next]_vars

\* ---------------------------------------------------------------- failing store
\* refreshToken.findUniqueOrThrow rejects with an error other than not-found
RtFindFails(p, error) ==
  /\ pc[p] = "rt_find"
  /\ trace' = [trace EXCEPT ![p] = Append(@, "refreshToken.findUniqueOrThrow")]
  /\ obs' = [obs EXCEPT ![p].storedAtFind = arg[p].token \in Stored, ![p].fault = error]
  /\ Finish(p, Thrown(RefreshCatch(error)))
  /\ UNCHANGED <<users, refreshTokens, now, arg, redeemed, issuedCount, calls, guard, posts, postSeq, postResult>>

\* refreshToken.delete rejects with an error other than not-found: the row stays
RtDeleteFails(p, error) ==
  /\ pc[p] = "rt_delete"
  /\ trace' = [trace EXCEPT ![p] = Append(@, "refreshToken.delete")]
  /\ obs' = [obs EXCEPT ![p].storedAtDelete = arg[p].token \in Stored, ![p].fault = error]
  /\ Finish(p, Thrown(RefreshCatch(error)))
  /\ UNCHANGED <<users, refreshTokens, now, arg, redeemed, issuedCount, calls, guard, posts, postSeq, postResult>>

\* refreshToken.create inside generateTokens rejects: no row is stored
GenCreateFails(p, error) ==
  /\ pc[p] = "gen_create"
  /\ trace' = [trace EXCEPT ![p] = Append(@, "refreshToken.create")]
  /\ obs' = [obs EXCEPT ![p].fault = error]
  /\ Finish(p, Thrown(GenerateTokensThrow(arg[p].op, error)))
  /\ UNCHANGED <<users, refreshTokens, now, arg, redeemed, issuedCount, calls, guard, posts, postSeq, postResult>>

\* what register's try block can raise apart from the unique violation: hash
\* fails, or user.create fails
RegisterFaults ==
  {[prim |-> "hash", error |-> DatabaseError("Hashing failed")]} \cup
  {[prim |-> "user.create", error |-> error] : error \in StoreFaults}

\* register whose hash or user.create rejects: no row is written
RegisterFails(p, email, password, name, fault) ==
  /\ Begin(p, [NoObs EXCEPT !.emailTaken = \E u \in users : u.email = email,
                            !.fault = fault.error])
  /\ arg' = [arg EXCEPT ![p] = [NoArg EXCEPT !.op = "register", !.email = email,
                                             !.password = password, !.name = name]]
  /\ trace' = [trace EXCEPT ![p] = IF fault.prim = "hash" THEN <<"hash">>
                                                          ELSE <<"hash", "user.create">>]
  /\ Finish(p, Thrown(RegisterCatch(fault.error)))
  /\ UNCHANGED <<users, refreshTokens, now, redeemed, issuedCount, guard, posts, postSeq, postResult>>

\* what generateTokens can raise before it stores the record: one of the two
\* signings throws, or the verification of the new refresh token rejects
TokenFaults ==
  {[prim |-> prim, error |-> DatabaseError("Token generation failed")] :
     prim \in {"signAccessToken", "signRefreshToken", "verifyRefreshToken"}}

\* the primitives generateTokens has called when prim fails
CalledUpTo(prim) ==
  CASE prim = "signAccessToken" -> <<"signAccessToken">>
    [] prim = "signRefreshToken" -> <<"signAccessToken", "signRefreshToken">>
    [] prim = "verifyRefreshToken" -> <<"signAccessToken", "signRefreshToken", "verifyRefreshToken">>

\* generateTokens failing before refreshToken.create
GenSignFails(p, fault) ==
  /\ pc[p] = "gen_sign"
  /\ trace' = [trace EXCEPT ![p] = @ \o CalledUpTo(fault.prim)]
  /\ obs' = [obs EXCEPT ![p].fault = fault.error]
  /\ Finish(p, Thrown(GenerateTokensThrow(arg[p].op, fault.error)))
  /\ UNCHANGED <<users, refreshTokens, now, arg, redeemed, issuedCount, calls, guard, posts, postSeq, postResult>>

\* register over a store and a hasher that can fail
RegisterFaultNext ==
  \/ Tick
  \/ \E p \in Procs, email \in Emails, password \in Passwords, name \in Names :
       Register(p, email, password, name)
  \/ \E p \in Procs, email \in Emails, password \in Passwords, name \in Names,
        fault \in RegisterFaults : RegisterFails(p, email, password, name, fault)

SpecRegisterFault == Init /\ [][RegisterFaultNext]_vars

\* the service with generateTokens failing at any of its steps
IssueFaultNext ==
  \/ Next
  \/ \E p \in Procs, fault \in TokenFaults : GenSignFails(p, fault)
  \/ \E p \in Procs, error \in StoreFaults : GenCreateFails(p, error)

SpecIssueFault == Init /\ [][IssueFaultNext]_vars

FaultNext ==
  \/ Next
  \/ \E p \in Procs, error \in StoreFaults : RtFindFails(p, error)
  \/ \E p \in Procs, error \in StoreFaults : RtDeleteFails(p, error)
  \/ \E p \in Procs, error \in StoreFaults : GenCreateFails(p, error)

SpecFault == Init /\ [][FaultNext]_vars

\* ---------------------------------------------------------------- guarded requests
AuthTypeLists == UNION {[1..n -> AuthTypes] : n \in 0..MaxAuthTypes}

Declarations ==
  {NoDeclaration} \cup
  {Declaration(authTypes, options) :
     authTypes \in AuthTypeLists,
     options \in {NoOptions, [condition |-> ConditionGuard.And], [condition |-> ConditionGuard.Or]}}

\* what a client can put into the authorization header at time t: nothing, a string
\* that is no token, an access or a refresh token signed up to now
BearerTokens(t) ==
  {NoToken, Garbage} \cup
  {signAccessToken([userId |-> 1], s) : s \in 0..t} \cup
  {signRefreshToken([userId |-> 1], s) : s \in 0..t}

XApiKeys == {Undefined, Str("secret-api-key"), Str("wrong-api-key")}

Requests(t) == [authorization : BearerTokens(t), xApiKey : XApiKeys]

\* envConfig.SECRET_API_KEY: ConfigSchema has no such property, so the value is
\* whatever the environment holds, a string or nothing
SecretApiKeys == {Str("secret-api-key"), Undefined}

GuardInit ==
  /\ users = {}
  /\ refreshTokens = {}
  /\ now = 0
  /\ pc = [p \in Procs |-> "idle"]
  /\ arg = [p \in Procs |-> NoArg]
  /\ loc = [p \in Procs |-> NoLoc]
  /\ trace = [p \in Procs |-> <<>>]
  /\ result = [p \in Procs |-> NoResult]
  /\ obs = [p \in Procs |-> NoObs]
  /\ redeemed = {}
  /\ issuedCount = [u \in {} |-> 0]
  /\ calls = 0
  /\ \E key \in SecretApiKeys : guard = IdleGuard(key)
  /\ posts = {}
  /\ postSeq = 0
  /\ postResult = NoPostResult

\* a request reaches a route: canActivate reads the route's metadata, and leaves
\* its loop at once when the list of strategies is empty
CanActivate(declaration, request) ==
  /\ guard.status = "idle"
  /\ LET authTypeValue == AuthTypeValue(MetadataOf(declaration))
     IN guard' = AfterLoop([IdleGuard(guard.SECRET_API_KEY) EXCEPT
                   !.status = "running",
                   !.declaration = declaration,
                   !.authTypes = authTypeValue.authTypes,
                   !.condition = authTypeValue.options.condition,
                   !.request = request,
                   !.validAtStart = /\ request.authorization.sig = ACCESS_TOKEN_SECRET
                                    /\ now < request.authorization.exp,
                   !.error = UnauthorizedException("Unauthorized")])
  /\ UNCHANGED <<users, refreshTokens, now, pc, arg, loc, trace, result, obs, redeemed,
                 issuedCount, calls, posts, postSeq, postResult>>

\* canActivate calls the next strategy and awaits it
EvaluateGuard ==
  /\ guard.status = "running"
  /\ guard.idx <= Len(guard.authTypes)
  /\ LET outcome == CanActivateOf(guard.authTypes[guard.idx], guard.request,
                                  guard.SECRET_API_KEY, now)
     IN guard' = AfterLoop(IF guard.condition = ConditionGuard.Or
                             THEN OrIteration(guard, outcome)
                             ELSE AndIteration(guard, outcome))
  /\ UNCHANGED <<users, refreshTokens, now, pc, arg, loc, trace, result, obs, redeemed,
                 issuedCount, calls, posts, postSeq, postResult>>

\* the route handler is invoked once canActivate has returned true
InvokeHandler ==
  /\ guard.status = "granted"
  /\ guard' = [guard EXCEPT !.status = "handled"]
  /\ UNCHANGED <<users, refreshTokens, now, pc, arg, loc, trace, result, obs, redeemed,
                 issuedCount, calls, posts, postSeq, postResult>>

\* the request is over: the handler's answer, or the guard's error, is sent
Respond ==
  /\ guard.status \in {"denied", "handled"}
  /\ guard' = IdleGuard(guard.SECRET_API_KEY)
  /\ UNCHANGED <<users, refreshTokens, now, pc, arg, loc, trace, result, obs, redeemed,
                 issuedCount, calls, posts, postSeq, postResult>>

GuardNext ==
  \/ Tick
  \/ \E declaration \in Declarations, request \in Requests(now) : CanActivate(declaration, request)
  \/ EvaluateGuard
  \/ InvokeHandler
  \/ Respond

GuardSpec == GuardInit /\ [][GuardNext]_vars

\* ---------------------------------------------------------------- posts
\* the userId the controller takes from the verified access token
UserIds == {1, 2}

Titles == {"t1", "t2"}

Contents == {"c"}

PostIds == 1..MaxPosts

PostCall(op, userId, postId) == [NoPostResult EXCEPT !.op = op, !.userId = userId, !.postId = postId]

\* PostsService.create
Create(userId, body) ==
  /\ postSeq < MaxPosts
  /\ LET r == PostCreate(posts, postSeq, [title |-> body.title, content |-> body.content,
                                          authorId |-> userId])
     IN /\ posts' = r.table
        /\ postSeq' = postSeq + 1
        /\ postResult' = [PostCall("create", userId, r.row.id) EXCEPT !.status = "returned",
                                                                     !.post = r.row]
  /\ UNCHANGED <<users, refreshTokens, now, pc, arg, loc, trace, result, obs, redeemed,
                 issuedCount, calls, guard>>

\* PostsService.findAll
FindAll(userId) ==
  /\ postResult' = [PostCall("findAll", userId, 0) EXCEPT
                      !.status = "returned",
                      !.list = PostFindMany(posts, [authorId |-> userId])]
  /\ UNCHANGED <<users, refreshTokens, now, pc, arg, loc, trace, result, obs, redeemed,
                 issuedCount, calls, guard, posts, postSeq>>

\* PostsService.findOne
FindOne(postId) ==
  /\ LET r == PostFindUniqueOrThrow(posts, [id |-> postId])
     IN postResult' = IF r.ok
                        THEN [PostCall("findOne", 0, postId) EXCEPT !.status = "returned",
                                                                    !.post = r.row]
                        ELSE [PostCall("findOne", 0, postId) EXCEPT !.status = "thrown",
                                                                    !.error = PostsCatch(r.error)]
  /\ UNCHANGED <<users, refreshTokens, now, pc, arg, loc, trace, result, obs, redeemed,
                 issuedCount, calls, guard, posts, postSeq>>

\* PostsService.update
Update(postId, userId, body) ==
  /\ LET r == PostUpdate(posts, [id |-> postId, authorId |-> userId],
                         [title |-> body.title, content |-> body.content])
     IN /\ posts' = r.table
        /\ postResult' = IF r.ok
                           THEN [PostCall("update", userId, postId) EXCEPT !.status = "returned",
                                                                          !.post = r.row]
                           ELSE [PostCall("update", userId, postId) EXCEPT
                                   !.status = "thrown", !.error = PostsCatch(r.error)]
  /\ UNCHANGED <<users, refreshTokens, now, pc, arg, loc, trace, result, obs, redeemed,
                 issuedCount, calls, guard, postSeq>>

\* PostsService.remove
Remove(postId, userId) ==
  /\ LET r == PostDelete(posts, [id |-> postId, authorId |-> userId])
     IN /\ posts' = r.table
        /\ postResult' = IF r.ok
                           THEN [PostCall("remove", userId, postId) EXCEPT !.status = "returned"]
                           ELSE [PostCall("remove", userId, postId) EXCEPT
                                   !.status = "thrown", !.error = PostsCatch(r.error)]
  /\ UNCHANGED <<users, refreshTokens, now, pc, arg, loc, trace, result, obs, redeemed,
                 issuedCount, calls, guard, postSeq>>

PostsNext ==
  \/ \E userId \in UserIds, body \in [title : Titles, content : Contents] : Create(userId, body)
  \/ \E userId \in UserIds : FindAll(userId)
  \/ \E postId \in PostIds : FindOne(postId)
  \/ \E postId \in PostIds, userId \in UserIds, body \in [title : Titles, content : Contents] :
       Update(postId, userId, body)
  \/ \E postId \in PostIds, userId \in UserIds : Remove(postId, userId)

PostsSpec == Init /\ [][PostsNext]_vars

TypeOK ==
  /\ now \in 0..MaxTime
  /\ calls \in 0..MaxCalls
  /\ \A p \in Procs : pc[p] \in {"idle", "done", "gen_sign", "gen_create", "rt_find", "rt_delete"}

\* ---------------------------------------------------------------- properties
Done(p, op) == pc[p] = "done" /\ arg[p].op = op

RefreshSigned(token) == token.sig = REFRESH_TOKEN_SECRET

\* C1: a refresh-token string is redeemed once. A refreshToken call that presents an
\* unexpired stored string nobody else is redeeming returns a new pair, and every
\* call that starts after the string has been redeemed fails with Unauthorized
\* 'Refresh token has been revoked'.
C1_RefreshSucceedsExactlyOnce ==
  \A p \in Procs :
    Done(p, "refreshToken") =>
      /\ (obs[p].redeemedBefore =>
            /\ result[p].status = "thrown"
            /\ result[p].error.name = "UnauthorizedException"
            /\ (~obs[p].expired =>
                  result[p].error.message = "Refresh token has been revoked"))
      /\ (/\ RefreshSigned(arg[p].token)
          /\ ~obs[p].expired
          /\ obs[p].storedAtFind
          /\ obs[p].storedAtDelete
          => result[p].status = "returned")

\* C2: two refreshToken calls that overlap in time and present the same stored,
\* unexpired string never both return a pair: one returns, the other fails with
\* Unauthorized.
C2_ConcurrentRefreshOneWinner ==
  \A p, q \in Procs :
    /\ p # q
    /\ Done(p, "refreshToken") /\ Done(q, "refreshToken")
    /\ arg[p].token = arg[q].token
    /\ p \in obs[q].overlaps
    /\ obs[p].storedAtStart /\ obs[q].storedAtStart
    /\ ~obs[p].expired /\ ~obs[q].expired
    => \E w \in {p, q} : \E l \in {p, q} \ {w} :
         /\ result[w].status = "returned"
         /\ result[l].status = "thrown"
         /\ result[l].error.name = "UnauthorizedException"

\* C3: REDEEMED is terminal: no string in the store has been deleted by refreshToken
\* before.
C3_StoredNeverRedeemed == Stored \cap redeemed = {}

\* C4: register with an email that is already in the user table fails with
\* ConflictException 'Email already exists', and the table holds exactly one row
\* for every registered email.
C4_DuplicateEmailRejected ==
  /\ \A e \in Emails : Cardinality({u \in users : u.email = e}) <= 1
  /\ \A p \in Procs :
       Done(p, "register") /\ obs[p].emailTaken =>
         /\ result[p] = Thrown(ConflictException("Email already exists"))
         /\ Cardinality({u \in users : u.email = arg[p].email}) = 1

C4_Witness ==
  \E p \in Procs : Done(p, "register") /\ obs[p].emailTaken /\ result[p].status = "thrown"

FoundUser(p) == UserFindUnique(users, arg[p].email)

\* task p takes a step that starts handler op and ends it at once, the other
\* tasks standing still
BeginsAndEnds(p, op) ==
  /\ Idle(p)
  /\ calls' = calls + 1
  /\ pc'[p] = "done"
  /\ arg'[p].op = op
  /\ \A q \in Procs \ {p} :
       pc'[q] = pc[q] /\ arg'[q] = arg[q] /\ trace'[q] = trace[q] /\ result'[q] = result[q]

PasswordMatches(p) == compare(arg[p].password, FoundUser(p).password)

\* C5: the first login after register, with the registered email and password,
\* returns an access and a refresh token that verify, at every second of their
\* lifetime, to the id of the row register created.
C5_RegisterThenLogin ==
  \A p \in Procs :
    /\ Done(p, "login")
    /\ obs[p].userFound
    /\ PasswordMatches(p)
    /\ issuedCount[FoundUser(p).id] = 1
    => /\ result[p].status = "returned"
       /\ LET at == result[p].tokens.accessToken
              rt == result[p].tokens.refreshToken
          IN /\ \A t \in at.iat..(at.exp - 1) :
                  /\ verifyAccessToken(at, t).ok
                  /\ verifyAccessToken(at, t).userId = FoundUser(p).id
             /\ \A t \in rt.iat..(rt.exp - 1) :
                  /\ verifyRefreshToken(rt, t).ok
                  /\ verifyRefreshToken(rt, t).userId = FoundUser(p).id
             /\ at.exp > at.iat
             /\ rt.exp > rt.iat

C5_Witness ==
  \E p, q \in Procs :
    /\ Done(q, "register") /\ result[q].status = "returned"
    /\ Done(p, "login") /\ arg[p].email = arg[q].email /\ arg[p].password = arg[q].password
    /\ issuedCount[result[q].user.id] = 1
    /\ result[p].status = "returned"
    /\ result[p].tokens.refreshToken.userId = result[q].user.id

\* a login with a registered email and a password that does not match the stored
\* hash ends right after the comparison with UnprocessableEntity on field
\* 'password': it signs no token and calls no refreshToken.create
C6_WrongPasswordEnds ==
  \A p \in Procs :
    arg[p].op = "login" /\ obs[p].userFound /\ ~PasswordMatches(p) =>
      /\ pc[p] = "done"
      /\ result[p] = Thrown(UnprocessableEntityException("password", "Incorrect password"))
      /\ trace[p] = <<"user.findUnique", "compare">>

\* the step of such a login leaves both tables as they are
C6_WrongPasswordFrame ==
  \A p \in Procs :
    /\ BeginsAndEnds(p, "login")
    /\ \E u \in users : u.email = arg'[p].email /\ ~compare(arg'[p].password, u.password)
    => refreshTokens' = refreshTokens /\ users' = users

\* C6: login with a registered email and a wrong password fails with
\* UnprocessableEntity on field 'password' right after the comparison, no task is
\* ever inside generateTokens with a mismatching password, and the login's step
\* leaves the refresh-token table and the user table unchanged.
C6_WrongPasswordNoTokens == []C6_WrongPasswordEnds /\ [][C6_WrongPasswordFrame]_vars

C6_Witness ==
  \E p \in Procs :
    /\ Done(p, "login") /\ obs[p].userFound /\ ~PasswordMatches(p)
    /\ refreshTokens = {}

\* a login with an email that has no row ends right after the lookup with
\* Unauthorized 'Account does not exist': no compare, no token, no
\* refreshToken.create
C7_UnknownEmailEnds ==
  \A p \in Procs :
    arg[p].op = "login" /\ ~obs[p].userFound =>
      /\ pc[p] = "done"
      /\ result[p] = Thrown(UnauthorizedException("Account does not exist"))
      /\ trace[p] = <<"user.findUnique">>

\* the step of such a login leaves both tables as they are
C7_UnknownEmailFrame ==
  \A p \in Procs :
    /\ BeginsAndEnds(p, "login")
    /\ ~\E u \in users : u.email = arg'[p].email
    => refreshTokens' = refreshTokens /\ users' = users

\* C7: login with an email that has no row fails with Unauthorized 'Account does
\* not exist' having called user.findUnique only (never compare), and its step
\* leaves the refresh-token table and the user table unchanged.
C7_UnknownEmailNoCompare == []C7_UnknownEmailEnds /\ [][C7_UnknownEmailFrame]_vars

C7_Witness ==
  \E p \in Procs : Done(p, "login") /\ ~obs[p].userFound /\ result[p].status = "thrown"

UnknownEmailAndWrongPassword(p, q) ==
  /\ Done(p, "login") /\ ~obs[p].userFound
  /\ Done(q, "login") /\ obs[q].userFound /\ ~PasswordMatches(q)

\* C8 as stated: a login that fails on an unknown email and a login that fails on a
\* wrong password give the caller the same outcome.
C8_LoginFailuresIndistinguishable ==
  \A p, q \in Procs : UnknownEmailAndWrongPassword(p, q) => result[p] = result[q]

\* C8 as amended: the two failures are told apart: an unknown email gives
\* Unauthorized 'Account does not exist', a wrong password gives
\* UnprocessableEntity 'Incorrect password'.
C8_LoginFailuresDistinguishable ==
  \A p, q \in Procs :
    UnknownEmailAndWrongPassword(p, q) =>
      /\ result[p].status = "thrown" /\ result[q].status = "thrown"
      /\ result[p].error.name # result[q].error.name
      /\ result[p].error.message # result[q].error.message
      /\ result[p].error.message = "Account does not exist"
      /\ result[q].error.message = "Incorrect password"

C8_Witness ==
  \E p, q \in Procs : UnknownEmailAndWrongPassword(p, q) /\ arg[p].password = arg[q].password

\* a refreshToken with a token whose signature is not the refresh secret's, or
\* which has expired, ends at the verify step with the generic Unauthorized: it
\* calls no store primitive
C9_InvalidTokenEnds ==
  \A p \in Procs :
    arg[p].op = "refreshToken" /\ (~RefreshSigned(arg[p].token) \/ obs[p].expired) =>
      /\ pc[p] = "done"
      /\ result[p] = Thrown(UnauthorizedException("Unauthorized"))
      /\ trace[p] = <<"verifyRefreshToken">>

\* the step of such a refreshToken leaves the store as it is
C9_InvalidTokenFrame ==
  \A p \in Procs :
    /\ BeginsAndEnds(p, "refreshToken")
    /\ (~RefreshSigned(arg'[p].token) \/ now >= arg'[p].token.exp)
    => refreshTokens' = refreshTokens /\ redeemed' = redeemed

\* C9: when the presented token fails signature or expiry verification,
\* refreshToken fails with Unauthorized having called verifyRefreshToken only (no
\* lookup, no delete, no create), and its step leaves the store unchanged.
C9_InvalidTokenTouchesNoStore == []C9_InvalidTokenEnds /\ [][C9_InvalidTokenFrame]_vars

C9_Witness ==
  \E p \in Procs :
    /\ Done(p, "refreshToken") /\ RefreshSigned(arg[p].token) /\ obs[p].expired
    /\ arg[p].token \in Stored

\* C10: refreshToken with a token that verifies and whose string is not in the
\* store fails with Unauthorized 'Refresh token has been revoked', which no other
\* failure cause produces, and signs no token.
C10_AbsentTokenIsRevoked ==
  \A p \in Procs :
    Done(p, "refreshToken") =>
      /\ (RefreshSigned(arg[p].token) /\ ~obs[p].expired /\ ~obs[p].storedAtFind =>
            /\ result[p] = Thrown(UnauthorizedException("Refresh token has been revoked"))
            /\ result[p].error # UnauthorizedException("Unauthorized")
            /\ result[p].tokens = NoTokens
            /\ trace[p] = <<"verifyRefreshToken", "refreshToken.findUniqueOrThrow">>)
      /\ (result[p].error.message = "Refresh token has been revoked" =>
            /\ RefreshSigned(arg[p].token) /\ ~obs[p].expired
            /\ ~(obs[p].storedAtFind /\ obs[p].storedAtDelete))

C10_Witness ==
  \E p \in Procs :
    /\ Done(p, "refreshToken")
    /\ RefreshSigned(arg[p].token) /\ ~obs[p].expired /\ ~obs[p].storedAtFind

\* an error of the store itself, other than not-found, ended the call at step prim
StoreFailedAt(p, prim) ==
  /\ Done(p, "refreshToken")
  /\ obs[p].fault # NoError
  /\ ~isNotFoundPrismaError(obs[p].fault)
  /\ trace[p][Len(trace[p])] = prim

C12_DeleteErrorPropagates ==
  \A p \in Procs :
    StoreFailedAt(p, "refreshToken.delete") => result[p] = Thrown(obs[p].fault)

\* the step in which task p leaves generateTokens with a pair
GenerateTokensReturns(p) ==
  /\ pc[p] = "gen_create"
  /\ pc'[p] = "done"
  /\ result'[p].status = "returned"

\* the step of generateTokens stores one record, for the returned refresh string
C13_OneRecordStored ==
  \A p \in Procs :
    GenerateTokensReturns(p) =>
      /\ Cardinality(refreshTokens' \ refreshTokens) = 1
      /\ refreshTokens \subseteq refreshTokens'
      /\ \A r \in refreshTokens' \ refreshTokens :
           /\ r.token = result'[p].tokens.refreshToken
           /\ r.userId = loc[p].userId
           /\ r.token.userId = r.userId
           /\ r.expiresAt = r.token.exp * 1000
           /\ r.expiresAt = loc[p].exp * 1000
      /\ Len(trace'[p]) >= 2
      /\ trace'[p][Len(trace'[p])] = "refreshToken.create"
      /\ trace'[p][Len(trace'[p]) - 1] = "verifyRefreshToken"

\* signing and verifying inside generateTokens store nothing
C13_NothingStoredBefore ==
  \A p \in Procs :
    pc[p] = "gen_sign" /\ pc'[p] # "gen_sign" => refreshTokens' = refreshTokens

\* C13: every generateTokens call that returns a pair stores exactly one record:
\* its token is the returned refresh string, its userId the user the pair was made
\* for, its expiresAt the exp claim of that verified token times 1000; the token
\* is verified before the record is created.
C13_GenerateTokensStoresOneRecord ==
  [][C13_OneRecordStored /\ C13_NothingStoredBefore]_vars

C13_Witness ==
  \E p \in Procs :
    /\ Done(p, "refreshToken")
    /\ result[p].status = "returned"
    /\ \E r \in refreshTokens :
         /\ r.token = result[p].tokens.refreshToken
         /\ r.expiresAt = r.token.exp * 1000
         /\ r.expiresAt >= 3000

\* ---------------------------------------------------------------- guard properties
GuardFinished == guard.status \in {"granted", "handled", "denied"}

GuardGranted == guard.status \in {"granted", "handled"}

AllEvaluatedOk == \A i \in 1..Len(guard.evaluated) : guard.evaluated[i].ok

\* the strategy evaluated last failed, and it is the only one that did
StoppedAtFirstFailure ==
  /\ Len(guard.evaluated) >= 1
  /\ ~guard.evaluated[Len(guard.evaluated)].ok
  /\ \A i \in 1..(Len(guard.evaluated) - 1) : guard.evaluated[i].ok

\* the verdict of the And branch over the outcomes of the strategies
AndVerdict ==
  /\ guard.status = "running" => AllEvaluatedOk
  /\ GuardGranted => AllEvaluatedOk /\ Len(guard.evaluated) = Len(guard.authTypes)
  /\ guard.status = "denied" =>
       /\ StoppedAtFirstFailure
       /\ guard.thrownFrom = Len(guard.evaluated)
       /\ guard.thrown = UnauthorizedException("Unauthorized")

\* C14: in And mode the request is granted iff every declared strategy was evaluated
\* and succeeded; the guard stops at the first strategy that fails, throws that
\* strategy's own error and evaluates none of the strategies after it. And over
\* [Bearer (fails), APIKey (would pass)] denies after the first strategy.
C14_AndModeFailsFast ==
  guard.status # "idle" /\ guard.condition = ConditionGuard.And =>
    /\ AndVerdict
    /\ (/\ GuardFinished
        /\ guard.authTypes = <<AuthType.Bearer, AuthType.APIKey>>
        /\ ~guard.validAtStart
        /\ guard.request.xApiKey = guard.SECRET_API_KEY
        => guard.status = "denied" /\ Len(guard.evaluated) = 1)

C14_Witness ==
  /\ guard.status = "denied"
  /\ guard.condition = ConditionGuard.And
  /\ guard.authTypes = <<AuthType.Bearer, AuthType.APIKey>>
  /\ guard.request.xApiKey = Str("secret-api-key")
  /\ guard.request.xApiKey = guard.SECRET_API_KEY
  /\ Len(guard.evaluated) = 1
  /\ guard.thrownFrom = 1

\* the strategy at position i succeeds whenever it is evaluated
SucceedsAlways(i) ==
  \/ guard.authTypes[i] = AuthType.None
  \/ guard.authTypes[i] = AuthType.APIKey /\ guard.request.xApiKey = guard.SECRET_API_KEY

\* the strategy at position i fails whenever it is evaluated
FailsAlways(i) ==
  \/ guard.authTypes[i] = AuthType.APIKey /\ guard.request.xApiKey # guard.SECRET_API_KEY
  \/ guard.authTypes[i] = AuthType.Bearer /\ ~guard.validAtStart

\* C15: in Or mode the request is granted iff at least one declared strategy
\* succeeds, wherever it stands in the list and however the strategies before it
\* failed; the guard stops at the first success.
C15_OrModeAnySuccessGrants ==
  guard.condition = ConditionGuard.Or /\ GuardFinished =>
    /\ GuardGranted =>
         /\ Len(guard.evaluated) >= 1
         /\ guard.evaluated[Len(guard.evaluated)].ok
         /\ \A i \in 1..(Len(guard.evaluated) - 1) : ~guard.evaluated[i].ok
    /\ guard.status = "denied" =>
         /\ Len(guard.evaluated) = Len(guard.authTypes)
         /\ \A i \in 1..Len(guard.evaluated) : ~guard.evaluated[i].ok
    /\ (\E i \in 1..Len(guard.authTypes) : SucceedsAlways(i)) => GuardGranted

\* C16: in Or mode, when every declared strategy fails, the guard throws the error
\* of the strategy declared last, not that of an earlier one.
C16_OrModeThrowsLastError ==
  /\ guard.condition = ConditionGuard.Or
  /\ guard.status = "denied"
  /\ Len(guard.authTypes) >= 1
  /\ \A i \in 1..Len(guard.authTypes) : FailsAlways(i)
  => /\ guard.thrownFrom = Len(guard.authTypes)
     /\ guard.thrown = guard.error
     /\ Len(guard.evaluated) = Len(guard.authTypes)

\* C17: a route without an Auth declaration is evaluated as [None] with And and is
\* granted; a route declared with Auth(authTypes) and no condition is evaluated
\* with And.
C17_DefaultsAreNoneAndAnd ==
  guard.status # "idle" =>
    /\ ~guard.declaration.declared =>
         /\ guard.authTypes = <<AuthType.None>>
         /\ guard.condition = ConditionGuard.And
         /\ guard.status # "denied"
         /\ GuardGranted => Len(guard.evaluated) = 1 /\ guard.evaluated[1].ok
    /\ guard.declaration.declared /\ guard.declaration.options = NoOptions =>
         /\ guard.authTypes = guard.declaration.authTypes
         /\ guard.condition = ConditionGuard.And
         /\ AndVerdict

C17_Witness ==
  /\ guard.status = "handled"
  /\ ~guard.declaration.declared
  /\ guard.request = NoRequest
  /\ guard.evaluated = <<[authType |-> AuthType.None, ok |-> TRUE, kind |-> "return"]>>

\* every way through the route's guard leads over the Bearer strategy
BearerGuarded ==
  \/ /\ guard.condition = ConditionGuard.And
     /\ \E i \in 1..Len(guard.authTypes) : guard.authTypes[i] = AuthType.Bearer
  \/ /\ guard.condition = ConditionGuard.Or
     /\ Len(guard.authTypes) >= 1
     /\ \A i \in 1..Len(guard.authTypes) : guard.authTypes[i] = AuthType.Bearer

\* C18: a request whose access token is expired or invalid (or missing) is
\* rejected by a Bearer-guarded route with an UnauthorizedException, and the
\* route handler is never invoked.
C18_InvalidAccessTokenRejected ==
  guard.status # "idle" /\ BearerGuarded /\ ~guard.validAtStart =>
    /\ guard.status \in {"running", "denied"}
    /\ guard.status = "denied" => guard.thrown.name = "UnauthorizedException"

C18_Witness ==
  /\ guard.status = "denied"
  /\ guard.authTypes = <<AuthType.Bearer>>
  /\ guard.request.authorization.sig = ACCESS_TOKEN_SECRET
  /\ guard.request.authorization.exp <= now
  /\ guard.thrown.name = "UnauthorizedException"

\* C19: the APIKey strategy succeeds iff the request carries an x-api-key header
\* equal to the configured secret; every other request, one without the header
\* included, fails with an UnauthorizedException.
C19_ApiKeyExactMatch ==
  \A i \in 1..Len(guard.evaluated) :
    guard.evaluated[i].authType = AuthType.APIKey =>
      /\ guard.evaluated[i].ok <=> guard.request.xApiKey = guard.SECRET_API_KEY
      /\ ~guard.request.xApiKey.defined => ~guard.evaluated[i].ok
      /\ ~guard.evaluated[i].ok =>
           guard.status = "denied" /\ guard.thrown = UnauthorizedException("Unauthorized")

\* C20: the two token classes are signed and verified with different secrets: no
\* access token is accepted by verifyRefreshToken, so refreshToken never redeems
\* one, and no refresh token is accepted by verifyAccessToken.
C20_TokenClassesSeparate ==
  /\ \A token \in HandedOut, t \in 0..MaxTime :
       /\ ~verifyAccessToken(token, t).ok
       /\ ~verifyRefreshToken(AccessTokenOf(token), t).ok
  /\ \A p \in Procs :
       /\ result[p].status = "returned" /\ result[p].tokens # NoTokens =>
            \A t \in 0..MaxTime :
              /\ ~verifyRefreshToken(result[p].tokens.accessToken, t).ok
              /\ ~verifyAccessToken(result[p].tokens.refreshToken, t).ok
              /\ t < result[p].tokens.accessToken.exp /\ t >= result[p].tokens.accessToken.iat =>
                   verifyAccessToken(result[p].tokens.accessToken, t).ok
       /\ Done(p, "refreshToken") /\ arg[p].token.sig = ACCESS_TOKEN_SECRET =>
            /\ result[p] = Thrown(UnauthorizedException("Unauthorized"))
            /\ trace[p] = <<"verifyRefreshToken">>

C20_Witness ==
  \E p \in Procs :
    /\ Done(p, "refreshToken")
    /\ arg[p].token.sig = ACCESS_TOKEN_SECRET
    /\ now < arg[p].token.exp
    /\ AccessTokenOf(CHOOSE token \in HandedOut : AccessTokenOf(token) = arg[p].token) = arg[p].token
    /\ result[p].status = "thrown"

\* a register call in which hash or user.create failed ends with that error
C21_RegisterFaultEnds ==
  \A p \in Procs :
    Done(p, "register") /\ obs[p].fault # NoError =>
      /\ result[p] = Thrown(obs[p].fault)
      /\ result[p].error.name # "ConflictException"
      /\ trace[p] \in {<<"hash">>, <<"hash", "user.create">>}

\* the step of such a register call writes no row
C21_RegisterFaultFrame ==
  \A p \in Procs :
    BeginsAndEnds(p, "register") /\ obs'[p].fault # NoError =>
      users' = users /\ refreshTokens' = refreshTokens

\* C21: when hash or user.create fails with anything but a unique violation,
\* register throws that same error unchanged, not the ConflictException, and no
\* user row is created.
C21_RegisterPropagatesOtherErrors ==
  []C21_RegisterFaultEnds /\ [][C21_RegisterFaultFrame]_vars

C21_Witness ==
  \E p \in Procs :
    /\ Done(p, "register")
    /\ obs[p].fault = PrismaClientKnownRequestError("P2001")
    /\ trace[p] = <<"hash", "user.create">>
    /\ result[p] = Thrown(PrismaClientKnownRequestError("P2001"))
    /\ ~\E u \in users : u.email = arg[p].email

\* the step in which task p's refreshToken has deleted the presented record
RefreshDeletes(p) ==
  /\ pc[p] = "rt_delete"
  /\ pc'[p] = "gen_sign"

\* C22: the step that completes a successful login adds exactly one record, for the
\* user who logged in; a successful refreshToken call removes exactly the record of
\* the presented token in its delete step and adds exactly one record in its create
\* step, and no other step of any call changes the table: a successful refresh
\* leaves the number of records as it was.
C22_RecordCounts ==
  [][/\ \A p \in Procs :
          RefreshDeletes(p) =>
            /\ refreshTokens' = {r \in refreshTokens : r.token # arg[p].token}
            /\ Cardinality(refreshTokens') = Cardinality(refreshTokens) - 1
     /\ \A p \in Procs :
          GenerateTokensReturns(p) =>
            /\ refreshTokens \subseteq refreshTokens'
            /\ Cardinality(refreshTokens') = Cardinality(refreshTokens) + 1
            /\ \A r \in refreshTokens' \ refreshTokens :
                 /\ r.userId = loc[p].userId
                 /\ arg[p].op = "login" => r.userId = FoundUser(p).id
                 /\ arg[p].op = "refreshToken" => r.userId = arg[p].token.userId
     /\ (\A p \in Procs : ~RefreshDeletes(p) /\ ~GenerateTokensReturns(p)) =>
          refreshTokens' = refreshTokens]_vars

C22_Witness ==
  \E p \in Procs :
    /\ Done(p, "refreshToken")
    /\ result[p].status = "returned"
    /\ result[p].tokens.refreshToken # arg[p].token
    /\ arg[p].token \notin Stored
    /\ result[p].tokens.refreshToken \in Stored
    /\ Cardinality(refreshTokens) = 1

\* the primitives of a refreshToken call that runs to its end
RefreshOrder ==
  <<"verifyRefreshToken", "refreshToken.findUniqueOrThrow", "refreshToken.delete",
    "signAccessToken", "signRefreshToken", "verifyRefreshToken", "refreshToken.create">>

\* C23: a refreshToken call runs verify, lookup, delete, issue in this order, each
\* step only after the one before it has succeeded: the store is read only for a
\* token that verified, the delete is called only for a row the lookup found, and
\* a replacement is signed or stored only after the presented row was deleted.
C23_RefreshStepsInOrder ==
  \A p \in Procs :
    arg[p].op = "refreshToken" =>
      /\ Len(trace[p]) \in 1..Len(RefreshOrder)
      /\ \A i \in 1..Len(trace[p]) : trace[p][i] = RefreshOrder[i]
      /\ pc[p] = "rt_find" => Len(trace[p]) = 1
      /\ pc[p] = "rt_delete" => Len(trace[p]) = 2
      /\ pc[p] = "gen_sign" => Len(trace[p]) = 3
      /\ pc[p] = "gen_create" => Len(trace[p]) = 6
      /\ Len(trace[p]) >= 2 \/ InFlight(p) => RefreshSigned(arg[p].token) /\ ~obs[p].expired
      /\ Len(trace[p]) >= 3 \/ pc[p] = "rt_delete" => obs[p].storedAtFind
      /\ Len(trace[p]) >= 4 \/ pc[p] \in {"gen_sign", "gen_create"} =>
           obs[p].storedAtDelete /\ arg[p].token \in redeemed
      /\ result[p].status = "returned" => trace[p] = RefreshOrder

C23_Witness ==
  \E p \in Procs :
    /\ arg[p].op = "refreshToken"
    /\ pc[p] = "gen_create"
    /\ arg[p].token \in redeemed
    /\ arg[p].token \notin Stored
    /\ loc[p].refreshToken # arg[p].token

\* C24: lookup and delete of the presented token are one atomic store operation:
\* between a call's lookup and its delete no other request changes the table, so
\* the delete finds the row exactly when the lookup found it.
C24_LookupDeleteAtomic ==
  \A p \in Procs :
    arg[p].op = "refreshToken" /\ Len(trace[p]) >= 3 =>
      obs[p].storedAtDelete = obs[p].storedAtFind

\* the strategies evaluated so far are the first ones declared, in their order,
\* and the next one to evaluate is the one that follows them
C25_EvaluatedInOrder ==
  guard.status # "idle" =>
    /\ guard.condition \in {ConditionGuard.And, ConditionGuard.Or}
    /\ Len(guard.evaluated) <= Len(guard.authTypes)
    /\ \A i \in 1..Len(guard.evaluated) : guard.evaluated[i].authType = guard.authTypes[i]
    /\ guard.status = "running" => guard.idx = Len(guard.evaluated) + 1

\* a step of a running guard completes the evaluation of at most one strategy
C25_OneAtATime ==
  guard.status = "running" =>
    /\ Len(guard'.evaluated) \in {Len(guard.evaluated), Len(guard.evaluated) + 1}
    /\ \A i \in 1..Len(guard.evaluated) : guard'.evaluated[i] = guard.evaluated[i]
    /\ guard'.status = "running" /\ guard' # guard => guard'.idx = guard.idx + 1

\* C25: in And mode and in Or mode alike the guard evaluates the strategies one at
\* a time in the order of their declaration: a strategy is called only after the
\* one before it has been awaited, never together with it.
C25_StrategiesSequential == []C25_EvaluatedInOrder /\ [][C25_OneAtATime]_vars

C25_Witness ==
  /\ guard.status = "running"
  /\ guard.condition = ConditionGuard.Or
  /\ guard.authTypes = <<AuthType.Bearer, AuthType.None>>
  /\ Len(guard.evaluated) = 1
  /\ guard.evaluated[1].kind = "reject"
  /\ guard.idx = 2

\* C26: every stored record's userId is the userId claim of its token, and the
\* pair refreshToken(T) returns carries the userId of T: rotation neither issues
\* tokens nor stores a record for another user than the one T was issued to.
C26_UserIdPreserved ==
  /\ \A r \in refreshTokens :
       /\ r.userId = r.token.userId
       /\ \E u \in users : u.id = r.userId
  /\ \A p \in Procs :
       arg[p].op = "refreshToken" =>
         /\ InFlight(p) => loc[p].userId = arg[p].token.userId
         /\ pc[p] = "gen_create" =>
              /\ loc[p].accessToken.userId = arg[p].token.userId
              /\ loc[p].refreshToken.userId = arg[p].token.userId
         /\ result[p].status = "returned" =>
              /\ result[p].tokens.accessToken.userId = arg[p].token.userId
              /\ result[p].tokens.refreshToken.userId = arg[p].token.userId

C26_Witness ==
  \E p \in Procs :
    /\ Done(p, "refreshToken")
    /\ result[p].status = "returned"
    /\ arg[p].token.userId = 2
    /\ \E r \in refreshTokens : r.token = result[p].tokens.refreshToken /\ r.userId = 2

\* task p's refreshToken call has deleted the presented record and then failed
\* while issuing the replacement
IssueFailedAfterDelete(p) ==
  /\ Done(p, "refreshToken")
  /\ Len(trace[p]) >= 4
  /\ result[p].status # "returned"

\* such a call throws the plain UnauthorizedException, its token being redeemed
C27_IssueFailureEnds ==
  \A p \in Procs :
    IssueFailedAfterDelete(p) =>
      /\ result[p] = Thrown(UnauthorizedException("Unauthorized"))
      /\ obs[p].storedAtDelete
      /\ arg[p].token \in redeemed
      /\ trace[p][3] = "refreshToken.delete"

\* after its delete the call changes the table only by a create that succeeds: a
\* failing step neither puts the deleted record back nor stores a new one
C27_IssueFailureFrame ==
  \A p \in Procs :
    /\ arg[p].op = "refreshToken"
    /\ pc[p] \in {"gen_sign", "gen_create"}
    /\ pc'[p] # pc[p]
    /\ ~GenerateTokensReturns(p)
    => refreshTokens' = refreshTokens

\* C27: when issuing the replacement pair fails after the presented record was
\* deleted (a signing, the verification or the insert fails), refreshToken throws
\* Unauthorized and the deletion is not undone: the call has removed one record
\* and stored none.
C27_FailedReissueKeepsDeletion ==
  []C27_IssueFailureEnds /\ [][C27_IssueFailureFrame]_vars

C27_Witness ==
  \E p \in Procs :
    /\ IssueFailedAfterDelete(p)
    /\ obs[p].fault = DatabaseError("Token generation failed")
    /\ trace[p][Len(trace[p])] = "verifyRefreshToken"
    /\ result[p] = Thrown(UnauthorizedException("Unauthorized"))
    /\ arg[p].token \notin Stored
    /\ refreshTokens = {}

\* C28: a record leaves the table only in the delete step of a refreshToken call
\* that presents that record's token; login and register remove none, so the
\* records of other users and of other sessions stay until they are redeemed
\* themselves.
C28_OnlyPresentedRecordDeleted ==
  [][\A r \in refreshTokens \ refreshTokens' :
       \E p \in Procs :
         /\ RefreshDeletes(p)
         /\ arg[p].op = "refreshToken"
         /\ r.token = arg[p].token]_vars

C28_Witness ==
  \E p \in Procs :
    /\ Done(p, "refreshToken")
    /\ result[p].status = "returned"
    /\ arg[p].token \notin Stored
    /\ \E r \in refreshTokens :
         /\ r.token # result[p].tokens.refreshToken
         /\ r.userId = arg[p].token.userId

\* the expiresAt of the stored record has passed
ExpiredRecord(r) == r.expiresAt <= now * 1000

\* C29 as stated: once the expiresAt of a record has passed, no refreshToken call
\* redeems it: the record is never removed from the table.
C29_ExpiredRecordNeverRemoved ==
  [][\A p \in Procs :
       RefreshDeletes(p) =>
         \A r \in refreshTokens : r.token = arg[p].token => ~ExpiredRecord(r)]_vars

\* C29: a refreshToken call that presents a token at or after the expiresAt of its
\* record never succeeds: the stored expiresAt is the token's exp claim times 1000,
\* verification rejects the token before the store is read, and the call ends
\* without a store operation, the record staying in the table. Only a call that
\* verified the token before that instant gets as far as the delete.
C29_ExpiredTokenNotRedeemable ==
  /\ \A r \in refreshTokens : r.expiresAt = r.token.exp * 1000
  /\ \A p \in Procs :
       arg[p].op = "refreshToken" =>
         /\ InFlight(p) \/ Len(trace[p]) >= 2 \/ result[p].status = "returned" => ~obs[p].expired
         /\ obs[p].storedAtStart /\ obs[p].expired =>
              /\ pc[p] = "done"
              /\ result[p] = Thrown(UnauthorizedException("Unauthorized"))
              /\ trace[p] = <<"verifyRefreshToken">>

C29_Witness ==
  \E p \in Procs :
    /\ Done(p, "refreshToken")
    /\ obs[p].expired
    /\ result[p] = Thrown(UnauthorizedException("Unauthorized"))
    /\ \E r \in refreshTokens : r.token = arg[p].token /\ ExpiredRecord(r) /\ r.expiresAt = 2000


\* C30: PostsService.update and PostsService.remove affect a post only when its
\* authorId is the caller's userId: on the caller's own post the call returns and no
\* other row changes; on any other id, another user's post included, the call throws
\* NotFoundException 'Post not found' and the post table stays as it was. findAll(userId)
\* returns exactly the posts whose authorId is userId and changes none.
OwnedBy(table, postId, userId) == \E q \in table : q.id = postId /\ q.authorId = userId

OtherRows(table, postId) == {q \in table : q.id # postId}

C30_Step ==
  LET r == postResult'
  IN /\ r.op \in {"update", "remove"} =>
          IF OwnedBy(posts, r.postId, r.userId)
            THEN /\ r.status = "returned"
                 /\ OtherRows(posts', r.postId) = OtherRows(posts, r.postId)
                 /\ r.op = "remove" => ~ \E q \in posts' : q.id = r.postId
                 /\ r.op = "update" =>
                      /\ r.post \in posts'
                      /\ r.post.id = r.postId /\ r.post.authorId = r.userId
                      /\ Cardinality(posts') = Cardinality(posts)
            ELSE /\ r.status = "thrown"
                 /\ r.error = NotFoundException("Post not found")
                 /\ posts' = posts
     /\ r.op = "findAll" =>
          /\ r.status = "returned"
          /\ r.list = {q \in posts : q.authorId = r.userId}
          /\ posts' = posts

C30_PostsScopedToOwner == [][C30_Step]_vars

\* a user's remove or update of another user's post has thrown 'Post not found', and the
\* post is still in the table
C30_Witness ==
  /\ postResult.op \in {"update", "remove"}
  /\ postResult.status = "thrown"
  /\ postResult.error = NotFoundException("Post not found")
  /\ \E q \in posts : q.id = postResult.postId /\ q.authorId # postResult.userId

====
